---- MODULE Spec2Model ----
(***************************************************************************)
(* A model of the personal finance tracker: the finance module (the global *)
(* transactions list, add_transaction, load_transactions,                  *)
(* save_transactions, view_monthly_summary, filter_by_category) and the    *)
(* menu loop of main.                                                      *)
(*                                                                         *)
(* Text is modelled character by character: a str is a sequence of         *)
(* one-character strings, so that strip, split, lower, zfill, float, int,  *)
(* strptime, strftime and the f-string of save_transactions are computed   *)
(* as the code computes them.                                              *)
(***************************************************************************)
EXTENDS Integers, Sequences, FiniteSets, TLC

VARIABLES
    transactions,   \* finance.transactions: the global list of dicts
    file,           \* the lines of transactions.csv (without their "\n")
    pc,             \* where the process is: "run", "start", "menu", "exited", "crashed"
    lastOp,         \* the function called last
    lastErr,        \* "ok", or the ValueError it raised
    args,           \* the texts passed to (or read by) the function called last
    result,         \* the list a query built (monthly_transactions, category_transactions)
    saved,          \* the transactions list as it was when the file was last written
    nextId,         \* number of append calls of this process, plus one
    loadCount,      \* calls of load_transactions main has made
    saveCount       \* calls of save_transactions main has made

vars == <<transactions, file, pc, lastOp, lastErr, args, result, saved,
          nextId, loadCount, saveCount>>

-----------------------------------------------------------------------------
(* Bounds of the model. *)

\* Longest transactions list the library model builds.
MaxLen == 2

\* Longest transactions list the single-function model of add_transaction builds.
MaxAdds == 3

\* Longest transactions list the model of main builds.
MaxMain == 2

-----------------------------------------------------------------------------
(* Text. *)

Digits == <<"0", "1", "2", "3", "4", "5", "6", "7", "8", "9">>

IsDigit(c) == \E i \in 1..10 : Digits[i] = c

DigitVal(c) == (CHOOSE i \in 1..10 : Digits[i] = c) - 1

AllDigits(s) == \A i \in 1..Len(s) : IsDigit(s[i])

\* The whitespace str.strip() removes, within the model's alphabet.
IsSpace(c) == c \in {" ", "\t", "\r", "\n"}

RECURSIVE LStrip(_)
LStrip(s) ==
    IF s = <<>> THEN s
    ELSE IF IsSpace(Head(s)) THEN LStrip(Tail(s)) ELSE s

RECURSIVE RStrip(_)
RStrip(s) ==
    IF s = <<>> THEN s
    ELSE IF IsSpace(s[Len(s)]) THEN RStrip(SubSeq(s, 1, Len(s) - 1)) ELSE s

\* str.strip()
Strip(s) == RStrip(LStrip(s))

\* str.split(sep): the fields between the separators, empty ones included.
RECURSIVE SplitFrom(_, _, _, _)
SplitFrom(s, sep, i, cur) ==
    IF i > Len(s) THEN <<cur>>
    ELSE IF s[i] = sep THEN <<cur>> \o SplitFrom(s, sep, i + 1, <<>>)
    ELSE SplitFrom(s, sep, i + 1, Append(cur, s[i]))

Split(s, sep) == SplitFrom(s, sep, 1, <<>>)

\* str.lower(), on the letters of the model's alphabet.
LowerChar(c) ==
    CASE c = "F" -> "f"
      [] c = "I" -> "i"
      [] c = "O" -> "o"
      [] c = "D" -> "d"
      [] OTHER -> c

Lower(s) == [i \in 1..Len(s) |-> LowerChar(s[i])]

Zeros(n) == [i \in 1..n |-> "0"]

Spaces(n) == [i \in 1..n |-> " "]

\* str.zfill(width): zeros on the left, after a leading sign.
ZFill(s, width) ==
    IF Len(s) >= width THEN s
    ELSE IF s # <<>> /\ Head(s) \in {"+", "-"}
         THEN <<Head(s)>> \o Zeros(width - Len(s)) \o Tail(s)
         ELSE Zeros(width - Len(s)) \o s

\* The value of a string of decimal digits.
RECURSIVE DigitsVal(_)
DigitsVal(s) ==
    IF s = <<>> THEN 0
    ELSE 10 * DigitsVal(SubSeq(s, 1, Len(s) - 1)) + DigitVal(s[Len(s)])

\* The decimal digits of a natural number.
RECURSIVE NatText(_)
NatText(n) ==
    IF n < 10 THEN <<Digits[n + 1]>>
    ELSE Append(NatText(n \div 10), Digits[(n % 10) + 1])

RECURSIVE Pow10(_)
Pow10(n) == IF n = 0 THEN 1 ELSE 10 * Pow10(n - 1)

-----------------------------------------------------------------------------
(* Numbers. *)

\* A float is modelled exactly as the decimal mant / 10^exp, with no trailing
\* zero in its fraction: float() of a numeral of at most 15 significant
\* digits and str() of the result are inverse on these values.
RECURSIVE Normal(_, _)
Normal(mant, exp) ==
    IF exp > 0 /\ mant % 10 = 0 THEN Normal(mant \div 10, exp - 1)
    ELSE [mant |-> mant, exp |-> exp]

NoFloat == [ok |-> FALSE, mant |-> 0, exp |-> 0]

\* float(text) of a decimal numeral: surrounding whitespace, an optional sign,
\* digits with an optional fraction ("5", "5.", ".5", "5.25").  Exponents,
\* underscores, "inf" and "nan" are outside the model's alphabet.
ParseFloat(text) ==
    LET s     == Strip(text)
        neg   == s # <<>> /\ Head(s) = "-"
        body  == IF s # <<>> /\ Head(s) \in {"+", "-"} THEN Tail(s) ELSE s
        parts == Split(body, ".")
        ip    == parts[1]
        fp    == IF Len(parts) = 2 THEN parts[2] ELSE <<>>
        wellFormed == /\ Len(parts) \in {1, 2}
                      /\ AllDigits(ip)
                      /\ AllDigits(fp)
                      /\ Len(ip) + Len(fp) > 0
        mag   == DigitsVal(ip \o fp)
        val   == Normal(IF neg THEN 0 - mag ELSE mag, Len(fp))
    IN  IF wellFormed THEN [ok |-> TRUE, mant |-> val.mant, exp |-> val.exp]
        ELSE NoFloat

\* str(x) of a float x, as the f-string of save_transactions formats it:
\* the integer part, a point and the fraction ("100.0", "40.5").
FormatFloat(x) ==
    LET mag  == IF x.mant < 0 THEN 0 - x.mant ELSE x.mant
        ip   == mag \div Pow10(x.exp)
        fp   == mag % Pow10(x.exp)
        sign == IF x.mant < 0 THEN <<"-">> ELSE <<>>
    IN  sign \o NatText(ip) \o <<".">> \o
        (IF x.exp = 0 THEN <<"0">> ELSE ZFill(NatText(fp), x.exp))

NoInt == [ok |-> FALSE, val |-> 0]

\* int(text): surrounding whitespace, an optional sign, one or more digits.
ParseInt(text) ==
    LET s    == Strip(text)
        neg  == s # <<>> /\ Head(s) = "-"
        body == IF s # <<>> /\ Head(s) \in {"+", "-"} THEN Tail(s) ELSE s
    IN  IF body # <<>> /\ AllDigits(body)
        THEN [ok |-> TRUE, val |-> IF neg THEN 0 - DigitsVal(body) ELSE DigitsVal(body)]
        ELSE NoInt

-----------------------------------------------------------------------------
(* Dates. *)

\* datetime.now().date(), the same day throughout a run.
Today == [y |-> 2024, m |-> 2, d |-> 15]

IsLeap(y) == (y % 4 = 0 /\ y % 100 # 0) \/ y % 400 = 0

DaysInMonth(y, m) ==
    IF m = 2 THEN (IF IsLeap(y) THEN 29 ELSE 28)
    ELSE IF m \in {4, 6, 9, 11} THEN 30 ELSE 31

\* date.__lt__ and date.__le__
DateLT(a, b) ==
    \/ a.y < b.y
    \/ a.y = b.y /\ a.m < b.m
    \/ a.y = b.y /\ a.m = b.m /\ a.d < b.d

DateLE(a, b) == ~DateLT(b, a)

\* strptime's pattern of %d: 3[0-1]|[1-2]\d|0[1-9]|[1-9]| [1-9]
MatchesDay(t) ==
    \/ Len(t) = 2 /\ AllDigits(t) /\ DigitsVal(t) \in 1..31
    \/ Len(t) = 1 /\ AllDigits(t) /\ DigitsVal(t) \in 1..9
    \/ Len(t) = 2 /\ t[1] = " " /\ IsDigit(t[2]) /\ DigitVal(t[2]) \in 1..9

\* strptime's pattern of %m: 1[0-2]|0[1-9]|[1-9]
MatchesMonth(t) ==
    \/ Len(t) = 2 /\ AllDigits(t) /\ DigitsVal(t) \in 1..12
    \/ Len(t) = 1 /\ AllDigits(t) /\ DigitsVal(t) \in 1..9

\* strptime's pattern of %Y: \d\d\d\d
MatchesYear(t) == Len(t) = 4 /\ AllDigits(t)

NoDate == [ok |-> FALSE, y |-> 0, m |-> 0, d |-> 0]

\* datetime.strptime(text, "%d-%m-%Y").date(): the whole text must match
\* day-month-year, and the day must exist in that month of that year.
Strptime(text) ==
    LET parts == Split(text, "-")
    IN  IF /\ Len(parts) = 3
           /\ MatchesDay(parts[1])
           /\ MatchesMonth(parts[2])
           /\ MatchesYear(parts[3])
        THEN LET d == DigitsVal(Strip(parts[1]))
                 m == DigitsVal(parts[2])
                 y == DigitsVal(parts[3])
             IN  IF y >= 1 /\ d <= DaysInMonth(y, m)
                 THEN [ok |-> TRUE, y |-> y, m |-> m, d |-> d]
                 ELSE NoDate
        ELSE NoDate

\* dt.strftime("%d-%m-%Y"): two digits, two digits, four digits (the years of
\* the model are 1000 and later, which every C library prints in four).
Strftime(dt) ==
    ZFill(NatText(dt.d), 2) \o <<"-">> \o ZFill(NatText(dt.m), 2) \o <<"-">> \o
    ZFill(NatText(dt.y), 4)

-----------------------------------------------------------------------------
(* The finance module. *)

INCOME == <<"i", "n", "c", "o", "m", "e">>

OUTCOME == <<"o", "u", "t", "c", "o", "m", "e">>

\* Width of the indentation that follows the backslash-newline inside the
\* f-string of save_transactions: the continuation line's leading blanks are
\* part of the string literal.
PadWidth == 16

\* A sort step that is not stable: t goes in front of the elements of its
\* own date.
RECURSIVE InsertBeforeEqual(_, _)
InsertBeforeEqual(sorted, t) ==
    IF sorted = <<>> THEN <<t>>
    ELSE IF DateLT(sorted[Len(sorted)].date, t.date) THEN Append(sorted, t)
    ELSE Append(InsertBeforeEqual(SubSeq(sorted, 1, Len(sorted) - 1), t),
                sorted[Len(sorted)])

\* One stable insertion step of list.sort(key=date): t goes behind every
\* element whose date is not later than its own.
RECURSIVE InsertByDate(_, _)
InsertByDate(sorted, t) ==
    IF sorted = <<>> THEN <<t>>
    ELSE IF DateLE(sorted[Len(sorted)].date, t.date) THEN Append(sorted, t)
    ELSE Append(InsertByDate(SubSeq(sorted, 1, Len(sorted) - 1), t),
                sorted[Len(sorted)])

\* The list left as append left it: the sort forgotten.
KeepOrder(list) == list

\* transactions.sort(key=lambda trans: trans["date"]): ascending and stable.
RECURSIVE SortByDate(_)
SortByDate(list) ==
    IF list = <<>> THEN <<>>
    ELSE InsertByDate(SortByDate(SubSeq(list, 1, Len(list) - 1)), list[Len(list)])

\* The checks of add_transaction, in the order the code makes them; each
\* ValueError is named after the check that raises it:
\*   InvalidKind    "Transaction type is invalid"
\*   EmptyCategory  "Category cannot be empty"
\*   InvalidAmount  "Invalid input.\nEnter only a positive number."
\*   InvalidDate    "Invalid date input. Enter: (Day-Month-Year)."
Validate(trans_type, amount, category, dt_str) ==
    LET num == ParseFloat(Strip(amount))
        dt  == Strptime(dt_str)
    IN  IF Strip(trans_type) \notin {INCOME, OUTCOME} THEN "InvalidKind"
        ELSE IF Strip(category) = <<>> THEN "EmptyCategory"
        ELSE IF ~num.ok \/ num.mant < 0 THEN "InvalidAmount"
        ELSE IF ~dt.ok \/ DateLT(Today, dt) THEN "InvalidDate"
        ELSE "ok"

\* The dict add_transaction appends.  id is not a key of the dict: it numbers
\* the append calls of the process, so that two dicts with equal values stay
\* two objects.
NewTransaction(id, trans_type, amount, category, dt_str) ==
    LET num == ParseFloat(Strip(amount))
        dt  == Strptime(dt_str)
    IN  [type     |-> Strip(trans_type),
         amount   |-> [mant |-> num.mant, exp |-> num.exp],
         category |-> Strip(category),
         date     |-> [y |-> dt.y, m |-> dt.m, d |-> dt.d],
         id       |-> id]

\* add_transaction with the append moved in front of the date check: a
\* transaction whose date is rejected is in the list when the error is raised.
AppendBeforeDateCheck(list, id, trans_type, amount, category, dt_str) ==
    LET err == Validate(trans_type, amount, category, dt_str)
        new == Append(list, NewTransaction(id, trans_type, amount, category, dt_str))
    IN  IF err \in {"InvalidKind", "EmptyCategory", "InvalidAmount"}
        THEN [err |-> err, list |-> list]
        ELSE [err |-> err, list |-> IF err = "ok" THEN SortByDate(new) ELSE new]

\* add_transaction on the list `list`: the error raised ("ok" when none) and
\* the list afterwards.
add_transaction(list, id, trans_type, amount, category, dt_str) ==
    LET err == Validate(trans_type, amount, category, dt_str)
    IN  IF err # "ok" THEN [err |-> err, list |-> list]
        ELSE [err  |-> "ok",
              list |-> SortByDate(Append(list,
                          NewTransaction(id, trans_type, amount, category, dt_str)))]

\* [element.strip() for element in row.split(",")]
RowFields(row) ==
    LET parts == Split(row, ",")
    IN  [i \in 1..Len(parts) |-> Strip(parts[i])]

\* The loop of load_transactions over the rows of the file, from the list
\* `list`: blank rows are skipped, a row that does not unpack into four
\* fields raises ValueError (Unpack), every other row goes to
\* add_transaction, and the first exception ends the loop where it is.
RECURSIVE load_transactions(_, _, _)
load_transactions(list, id, rows) ==
    IF rows = <<>> THEN [err |-> "ok", list |-> list, id |-> id]
    ELSE LET row == Strip(Head(rows))
         IN  IF row = <<>> THEN load_transactions(list, id, Tail(rows))
             ELSE LET f == RowFields(row)
                  IN  IF Len(f) # 4 THEN [err |-> "Unpack", list |-> list, id |-> id]
                      ELSE LET r == add_transaction(list, id, f[1], f[2], f[3], f[4])
                           IN  IF r.err # "ok"
                               THEN [err |-> r.err, list |-> r.list, id |-> id]
                               ELSE load_transactions(r.list, id + 1, Tail(rows))

\* The row save_transactions writes for one transaction, without its "\n".
SaveRow(trans) ==
    trans.type \o <<",">> \o FormatFloat(trans.amount) \o <<",">> \o
    trans.category \o <<",">> \o Spaces(PadWidth) \o Strip(Strftime(trans.date))

\* The file save_transactions leaves: opened with "w", one row per transaction.
save_transactions(list) == [i \in 1..Len(list) |-> SaveRow(list[i])]

\* re.match(reg, text) for reg = ^\d{2}-<month>-<year>$ where month and year,
\* spliced into the pattern as they are, hold no regex metacharacter.
RegMatch(month, year, text) ==
    /\ Len(text) = 4 + Len(month) + Len(year)
    /\ IsDigit(text[1])
    /\ IsDigit(text[2])
    /\ SubSeq(text, 3, Len(text)) = <<"-">> \o month \o <<"-">> \o year

\* view_monthly_summary on the texts read for month and year: the error
\* raised and monthly_transactions.
\*   InvalidPeriod  "Invalid date values.\nEnter a valid month and year."
view_monthly_summary(list, monthIn, yearIn) ==
    LET month == Strip(monthIn)
        year  == Strip(yearIn)
        mm    == ZFill(month, 2)
        yyyy  == ZFill(year, 4)
        m     == ParseInt(month)
        y     == ParseInt(year)
        Hit(trans) == RegMatch(mm, yyyy, Strftime(trans.date))
    IN  IF ~m.ok \/ ~y.ok THEN [err |-> "InvalidPeriod", list |-> <<>>]
        ELSE IF m.val > 12 \/ m.val < 1 \/ y.val > Today.y
             THEN [err |-> "InvalidPeriod", list |-> <<>>]
        ELSE [err |-> "ok", list |-> SelectSeq(list, Hit)]

\* filter_by_category on the text read: category_transactions.
filter_by_category(list, categoryIn) ==
    LET category == Strip(Lower(categoryIn))
        Hit(trans) == trans.category = category
    IN  SelectSeq(list, Hit)

-----------------------------------------------------------------------------
(* Inputs: the texts the callers pass and the files found on disk. *)

FOOD == <<"f", "o", "o", "d">>

FOOD_TITLE == <<"F", "o", "o", "d">>

A_COMMA_B == <<"a", ",", "b">>

BLANK == <<" ">>

JAN_1 == <<"0", "1", "-", "0", "1", "-", "2", "0", "2", "4">>

JAN_1_SHORT == <<"1", "-", "1", "-", "2", "0", "2", "4">>

DEC_20 == <<"2", "0", "-", "1", "2", "-", "2", "0", "2", "3">>

FEB_15 == <<"1", "5", "-", "0", "2", "-", "2", "0", "2", "4">>

FEB_16 == <<"1", "6", "-", "0", "2", "-", "2", "0", "2", "4">>

JAN_1_YY == <<"0", "1", "-", "0", "1", "-", "2", "4">>

YEAR_2024 == <<"2", "0", "2", "4">>

\* A row of the file as an editor or an earlier run left it.
Row(a, b, c, d) == a \o <<",">> \o b \o <<",">> \o c \o <<",">> \o d

\* trans_type, amount, category, dt_str of the calls the library model makes:
\* four that pass every check (two of them on the same day), and one failing
\* each check.
AddInputs ==
    { <<INCOME, <<"1", "0", "0">>, FOOD, JAN_1>>,
      <<OUTCOME, <<"4", "0", ".", "5">>, FOOD_TITLE, JAN_1_SHORT>>,
      <<INCOME, <<"7">>, A_COMMA_B, FEB_15>>,
      <<<<" ">> \o OUTCOME, <<" ", "7", " ">>, FOOD, DEC_20>>,
      <<<<"I">> \o Tail(INCOME), <<"1", "0", "0">>, FOOD, JAN_1>>,
      <<INCOME, <<"1", "0", "0">>, BLANK, JAN_1>>,
      <<INCOME, <<"-", "5">>, FOOD, JAN_1>>,
      <<INCOME, <<"1", "0", "0">>, FOOD, FEB_16>> }

\* The texts of each parameter in the single-function model of add_transaction.
Kinds == { INCOME, <<" ">> \o OUTCOME, <<"I">> \o Tail(INCOME) }

Amounts == { <<"1", "0", "0">>, <<"-", "5">>, <<"a", "b">> }

Categories == { FOOD, BLANK }

Dates == { JAN_1, JAN_1_SHORT, FEB_15, FEB_16, JAN_1_YY }

\* The texts typed for month and year.
MonthInputs ==
    { << <<"1">>, YEAR_2024 >>,
      << <<"0", "1">>, YEAR_2024 >>,
      << <<"0", "0", "1">>, YEAR_2024 >>,
      << <<"1">>, <<"0">> \o YEAR_2024 >>,
      << <<" ", "2">>, YEAR_2024 >>,
      << <<"1", "2">>, <<"2", "0", "2", "3">> >>,
      << <<"1", "3">>, YEAR_2024 >>,
      << <<"1">>, <<"2", "0", "2", "5">> >>,
      << <<"a", "b">>, YEAR_2024 >> }

\* The texts typed for the category to filter by.
CategoryQueries == { FOOD, FOOD_TITLE, <<" ">> \o FOOD }

\* transactions.csv as the process finds it (the file exists: open() raising
\* FileNotFoundError is left out): empty; one row as
\* save_transactions writes it, behind a blank row; a good row and a row of
\* one field; a good row and a row whose amount add_transaction rejects.
InitFiles ==
    { <<>>,
      << <<>>, Row(INCOME, <<"1", "0", "0", ".", "0">>, FOOD, Spaces(PadWidth) \o JAN_1) >>,
      << Row(OUTCOME, <<"5">>, FOOD_TITLE, DEC_20), <<"b", "a", "d">> >>,
      << Row(INCOME, <<"1", "0", "0">>, FOOD, JAN_1),
         Row(INCOME, <<"-", "5">>, FOOD, JAN_1) >> }

\* Rows of the file that are not blank.
DataRows(rows) == LET NotBlank(r) == Strip(r) # <<>> IN SelectSeq(rows, NotBlank)

-----------------------------------------------------------------------------
(* The finance module called as a library: its functions in any order. *)

NothingSaved == [valid |-> FALSE, list |-> <<>>]

InitWith(files, at) ==
    /\ transactions = <<>>
    /\ file \in files
    /\ pc = at
    /\ lastOp = "none"
    /\ lastErr = "ok"
    /\ args = <<>>
    /\ result = <<>>
    /\ saved = NothingSaved
    /\ nextId = 1
    /\ loadCount = 0
    /\ saveCount = 0

Init == InitWith(InitFiles, "run")

\* add_transaction(trans_type, amount, category, dt_str)
Add(trans_type, amount, category, dt_str) ==
    LET r == add_transaction(transactions, nextId, trans_type, amount, category, dt_str)
    IN  /\ pc = "run"
        /\ transactions' = r.list
        /\ nextId' = IF r.err = "ok" THEN nextId + 1 ELSE nextId
        /\ lastOp' = "add"
        /\ lastErr' = r.err
        /\ args' = <<trans_type, amount, category, dt_str>>
        /\ result' = <<>>
        /\ saved' = IF r.err = "ok" THEN NothingSaved ELSE saved
        /\ UNCHANGED <<file, pc, loadCount, saveCount>>

\* load_transactions()
Load ==
    LET r == load_transactions(transactions, nextId, file)
    IN  /\ pc = "run"
        /\ Len(transactions) + Len(DataRows(file)) <= MaxLen
        /\ transactions' = r.list
        /\ nextId' = r.id
        /\ lastOp' = "load"
        /\ lastErr' = r.err
        /\ args' = <<>>
        /\ result' = <<>>
        /\ UNCHANGED <<file, pc, saved, loadCount, saveCount>>

\* save_transactions()
Save ==
    /\ pc = "run"
    /\ file' = save_transactions(transactions)
    /\ saved' = [valid |-> TRUE, list |-> transactions]
    /\ lastOp' = "save"
    /\ lastErr' = "ok"
    /\ args' = <<>>
    /\ result' = <<>>
    /\ UNCHANGED <<transactions, pc, nextId, loadCount, saveCount>>

\* view_monthly_summary() with the texts read for month and year
MonthSummary(monthIn, yearIn) ==
    LET r == view_monthly_summary(transactions, monthIn, yearIn)
    IN  /\ pc = "run"
        /\ lastOp' = "month"
        /\ lastErr' = r.err
        /\ args' = <<monthIn, yearIn>>
        /\ result' = r.list
        /\ UNCHANGED <<transactions, file, pc, saved, nextId, loadCount, saveCount>>

\* filter_by_category() with the text read for the category
CategorySummary(categoryIn) ==
    /\ pc = "run"
    /\ lastOp' = "category"
    /\ lastErr' = "ok"
    /\ args' = <<categoryIn>>
    /\ result' = filter_by_category(transactions, categoryIn)
    /\ UNCHANGED <<transactions, file, pc, saved, nextId, loadCount, saveCount>>

\* The process ends and the program is started again: the module is
\* imported anew, transactions = [], and the file stays as it is.
Restart ==
    /\ pc = "run"
    /\ transactions' = <<>>
    /\ nextId' = 1
    /\ lastOp' = "restart"
    /\ lastErr' = "ok"
    /\ args' = <<>>
    /\ result' = <<>>
    /\ UNCHANGED <<file, pc, saved, loadCount, saveCount>>

AddAny ==
    /\ Len(transactions) < MaxLen
    /\ \E in \in AddInputs : Add(in[1], in[2], in[3], in[4])

MonthAny == \E in \in MonthInputs : MonthSummary(in[1], in[2])

CategoryAny == \E c \in CategoryQueries : CategorySummary(c)

Next == AddAny \/ Load \/ Save \/ MonthAny \/ CategoryAny \/ Restart

Spec == Init /\ [][Next]_vars

-----------------------------------------------------------------------------
(* add_transaction alone: every combination of the parameter texts. *)

InitAdd == InitWith({<<>>}, "run")

AddEach ==
    /\ Len(transactions) < MaxAdds
    /\ \E k \in Kinds, a \in Amounts, c \in Categories, d \in Dates : Add(k, a, c, d)

NextAdd == AddEach

SpecAdd == InitAdd /\ [][NextAdd]_vars

-----------------------------------------------------------------------------
(* main: load_transactions, then the menu loop.  No exception is caught    *)
(* anywhere in main, so a ValueError raised by a function it calls ends    *)
(* the process with a traceback.                                           *)

\* The texts typed at the four prompts of choice "1".
MainAddInputs ==
    { <<<<"I">> \o Tail(INCOME), <<"1", "0", "0">>, FOOD_TITLE, JAN_1>>,
      <<OUTCOME, <<"4", "0", ".", "5">>, FOOD, FEB_15>>,
      <<INCOME, <<"-", "5">>, FOOD, JAN_1>>,
      <<<<" ">> \o OUTCOME, <<"7">>, FOOD, DEC_20>>,
      <<INCOME, <<"7">>, FOOD, FEB_16>> }

\* The texts typed at the two prompts of choice "3".
MainMonthInputs ==
    { << <<"1">>, YEAR_2024 >>, << <<"1", "3">>, YEAR_2024 >> }

InitMain == InitWith(InitFiles, "start")

\* load_transactions() at the top of main
MainLoad ==
    LET r == load_transactions(transactions, nextId, file)
    IN  /\ pc = "start"
        /\ transactions' = r.list
        /\ nextId' = r.id
        /\ loadCount' = loadCount + 1
        /\ pc' = IF r.err = "ok" THEN "menu" ELSE "crashed"
        /\ lastOp' = "load"
        /\ lastErr' = r.err
        /\ args' = <<>>
        /\ result' = <<>>
        /\ UNCHANGED <<file, saved, saveCount>>

\* case "1": the type and the category are lower-cased as they are read
Choice1(typed) ==
    LET trans_type == Lower(typed[1])
        category   == Lower(typed[3])
        r == add_transaction(transactions, nextId, trans_type, typed[2], category, typed[4])
    IN  /\ pc = "menu"
        /\ Len(transactions) < MaxMain
        /\ transactions' = r.list
        /\ nextId' = IF r.err = "ok" THEN nextId + 1 ELSE nextId
        /\ pc' = IF r.err = "ok" THEN "menu" ELSE "crashed"
        /\ lastOp' = "add"
        /\ lastErr' = r.err
        /\ args' = <<trans_type, typed[2], category, typed[4]>>
        /\ result' = <<>>
        /\ UNCHANGED <<file, saved, loadCount, saveCount>>

\* case "2": view_summary() prints every transaction and the totals
Choice2 ==
    /\ pc = "menu"
    /\ lastOp' = "summary"
    /\ lastErr' = "ok"
    /\ args' = <<>>
    /\ result' = transactions
    /\ UNCHANGED <<transactions, file, pc, saved, nextId, loadCount, saveCount>>

\* case "3": view_monthly_summary()
Choice3(typed) ==
    LET r == view_monthly_summary(transactions, typed[1], typed[2])
    IN  /\ pc = "menu"
        /\ pc' = IF r.err = "ok" THEN "menu" ELSE "crashed"
        /\ lastOp' = "month"
        /\ lastErr' = r.err
        /\ args' = typed
        /\ result' = r.list
        /\ UNCHANGED <<transactions, file, saved, nextId, loadCount, saveCount>>

\* case "4": filter_by_category()
Choice4(typed) ==
    /\ pc = "menu"
    /\ lastOp' = "category"
    /\ lastErr' = "ok"
    /\ args' = <<typed>>
    /\ result' = filter_by_category(transactions, typed)
    /\ UNCHANGED <<transactions, file, pc, saved, nextId, loadCount, saveCount>>

\* case "5": save_transactions(), "Goodbye!", break
Choice5 ==
    /\ pc = "menu"
    /\ file' = save_transactions(transactions)
    /\ saved' = [valid |-> TRUE, list |-> transactions]
    /\ saveCount' = saveCount + 1
    /\ pc' = "exited"
    /\ lastOp' = "save"
    /\ lastErr' = "ok"
    /\ args' = <<>>
    /\ result' = <<>>
    /\ UNCHANGED <<transactions, nextId, loadCount>>

\* case _: "Invalid choice. Please try again."
ChoiceOther ==
    /\ pc = "menu"
    /\ lastOp' = "invalid"
    /\ lastErr' = "ok"
    /\ args' = <<>>
    /\ result' = <<>>
    /\ UNCHANGED <<transactions, file, pc, saved, nextId, loadCount, saveCount>>

Choice1Any == \E typed \in MainAddInputs : Choice1(typed)

Choice3Any == \E typed \in MainMonthInputs : Choice3(typed)

Choice4Any == \E typed \in CategoryQueries : Choice4(typed)

NextMain ==
    MainLoad \/ Choice1Any \/ Choice2 \/ Choice3Any \/ Choice4Any \/ Choice5 \/ ChoiceOther

SpecMain == InitMain /\ [][NextMain]_vars

-----------------------------------------------------------------------------
(* The properties. *)

\* A transaction without the number of its append call: its four values.
Plain(trans) ==
    [type |-> trans.type, amount |-> trans.amount,
     category |-> trans.category, date |-> trans.date]

PlainList(list) == [i \in 1..Len(list) |-> Plain(list[i])]

\* C1: after any sequence of add_transaction calls, accepted or rejected,
\* and load_transactions calls, the transactions list is sorted
\* non-decreasing by date: date[i] <= date[j] for all positions i < j.
C1_SortedByDate ==
    \A i, j \in 1..Len(transactions) :
        i < j => DateLE(transactions[i].date, transactions[j].date)

\* C1 happens: two transactions of different dates, the earlier date appended
\* last, stand in date order.
C1_Witness ==
    /\ Len(transactions) = 2
    /\ DateLT(transactions[1].date, transactions[2].date)
    /\ transactions[1].id > transactions[2].id

\* C9: transactions of equal dates keep the order in which they were added,
\* whatever is added afterwards: of two with the same date, the one appended
\* earlier stands in front.
C9_EqualDatesKeepInsertionOrder ==
    \A i, j \in 1..Len(transactions) :
        (i < j /\ transactions[i].date = transactions[j].date)
            => transactions[i].id < transactions[j].id

\* C9 happens: two different transactions of one date stand in the order of
\* their adding, behind a transaction added after both.
C9_Witness ==
    /\ Len(transactions) = 3
    /\ transactions[2].date = transactions[3].date
    /\ transactions[2].type # transactions[3].type
    /\ transactions[2].id < transactions[3].id
    /\ transactions[1].id > transactions[3].id

\* C10: an add_transaction call that raises, at whichever check, leaves the
\* transactions list as it was, element for element and in order.
C10_RejectedAddKeepsLedger ==
    [][(lastOp' = "add" /\ lastErr' # "ok") => transactions' = transactions]_vars

\* C10 happens: a call was rejected for its date, the last of the checks,
\* with transactions in the list.
C10_Witness ==
    /\ lastOp = "add"
    /\ lastErr = "InvalidDate"
    /\ Len(transactions) = 2

\* C2: save_transactions followed by load_transactions of the same file
\* gives the transactions that were saved: the same type, amount, category
\* and date for each, in the same order, none added, lost or duplicated.
C2_SaveLoadRoundTrip ==
    (lastOp = "load" /\ saved.valid)
        => (lastErr = "ok" /\ PlainList(transactions) = PlainList(saved.list))

\* C3: a load that meets a malformed row (a wrong number of fields, or a
\* field add_transaction rejects) fails as a whole: none of the rows in
\* front of the malformed one is left in the transactions list.
C3_FailedLoadLeavesNothing ==
    [][(lastOp' = "load" /\ lastErr' # "ok") => transactions' = transactions]_vars

\* C4: in every run of main, load_transactions is called once at startup
\* and save_transactions exactly once before the process ends, whatever is
\* typed at the menu; stated of the runs that end after the menu was
\* reached (the last call was not the load at startup).
C4_LoadOnceSaveOnce ==
    (pc \in {"exited", "crashed"} /\ lastOp # "load")
        => (loadCount = 1 /\ saveCount = 1)

\* A text of the form DD-MM-YYYY: two digits, two digits and four digits
\* between hyphens, naming a day of the calendar.
IsDDMMYYYY(text) ==
    /\ Len(text) = 10
    /\ text[3] = "-"
    /\ text[6] = "-"
    /\ AllDigits(SubSeq(text, 1, 2))
    /\ AllDigits(SubSeq(text, 4, 5))
    /\ AllDigits(SubSeq(text, 7, 10))
    /\ Strptime(text).ok

\* The error C5 names for a call: that of the first failing check in the
\* order kind, category, amount, date.
C5_Expected(trans_type, amount, category, dt_str) ==
    IF Strip(trans_type) \notin {INCOME, OUTCOME} THEN "InvalidKind"
    ELSE IF Strip(category) = <<>> THEN "EmptyCategory"
    ELSE IF ~ParseFloat(amount).ok \/ ParseFloat(amount).mant < 0 THEN "InvalidAmount"
    ELSE IF ~IsDDMMYYYY(dt_str) \/ DateLT(Today, Strptime(dt_str)) THEN "InvalidDate"
    ELSE "ok"

\* C5: add_transaction checks kind, category, amount and date in that order
\* and raises the error of the first check that fails; the date check fails
\* for a text that is not a DD-MM-YYYY date and for a date after today.
C5_FirstFailingCheck ==
    lastOp = "add" => lastErr = C5_Expected(args[1], args[2], args[3], args[4])

\* The transactions of the calendar month and year, in list order.
InMonth(list, month, year) ==
    LET Hit(trans) == trans.date.m = month /\ trans.date.y = year
    IN  SelectSeq(list, Hit)

\* C6: for a month in 1..12 and a year not after the current one, the
\* monthly summary holds exactly the transactions of that calendar month and
\* year, in list order, however the two numerals are written.
C6_MonthByCalendar ==
    LET m == ParseInt(args[1])
        y == ParseInt(args[2])
    IN  (/\ lastOp = "month"
         /\ m.ok /\ y.ok
         /\ m.val \in 1..12
         /\ y.val <= Today.y)
            => (lastErr = "ok" /\ result = InMonth(transactions, m.val, y.val))

\* C7: every transaction in the list has a non-empty category in lower
\* case, the form filter_by_category compares with.
C7_CategoryLowerCase ==
    \A i \in 1..Len(transactions) :
        /\ transactions[i].category # <<>>
        /\ transactions[i].category = Lower(transactions[i].category)

\* C8: the file save_transactions leaves has one row per transaction, in
\* list order, of the four fields type,amount,category,date between single
\* commas, with no blank in front of or behind any field.
C8_RowsWithoutPadding ==
    lastOp = "save" =>
        /\ Len(file) = Len(transactions)
        /\ \A i \in 1..Len(file) :
              file[i] = Row(transactions[i].type,
                            FormatFloat(transactions[i].amount),
                            transactions[i].category,
                            Strftime(transactions[i].date))

====
